---- MODULE Spec2Model ----
(***************************************************************************)
(* Model of the recipe API (app/recipe/views.py, app/recipe/serializers.py) *)
(* as a state machine over the entity store.  Every request handler is one  *)
(* action; the specification SpecRace splits the tag handlers into their    *)
(* two database round trips (existence query, then save).                   *)
(***************************************************************************)
EXTENDS Integers, Sequences, FiniteSets, TLC

VARIABLES tags, ingredients, recipes, recipe_tags, recipe_ingredients,
          nextTagId, nextIngredientId, nextRecipeId,
          request, response, inflight, capacity

store == <<tags, ingredients, recipes, recipe_tags, recipe_ingredients,
           nextTagId, nextIngredientId, nextRecipeId>>

vars == <<tags, ingredients, recipes, recipe_tags, recipe_ingredients,
          nextTagId, nextIngredientId, nextRecipeId,
          request, response, inflight, capacity>>

(***************************************************************************)
(* Bounds of the model.                                                     *)
(***************************************************************************)
MaxTags == 2

MaxIngredients == 1

MaxRecipes == 1

\* rows per table when only the tag and ingredient endpoints are used
AttrMaxTags == 2

AttrMaxIngredients == 2

\* rows of the stores the list requests are tried on
FixtureTags == 2

FixtureIngredients == 1

FixtureRecipes == 2

\* tags in the store when the two concurrent requests arrive
RaceTags == 1

(***************************************************************************)
(* Strings that the code inspects are sequences of character codes.         *)
(***************************************************************************)
Str_A == <<65>>

Str_a == <<97>>

Str_B == <<66>>

Str_C == <<67>>

Names == {Str_A, Str_a, Str_B, Str_C}

\* str.lower() on one character code
LowerChar(c) == IF c >= 65 /\ c <= 90 THEN c + 32 ELSE c

\* str.lower()
Lower(s) == [i \in DOMAIN s |-> LowerChar(s[i])]

\* the name__iexact lookup: equality up to case
IExact(a, b) == Lower(a) = Lower(b)

\* a < b in the ordering of order_by on a text column (code point order)
StrLess(a, b) ==
    \E k \in 1..(Len(a) + 1) :
        /\ \A i \in 1..(k - 1) : i <= Len(b) /\ a[i] = b[i]
        /\ \/ k = Len(a) + 1 /\ Len(b) >= k
           \/ k <= Len(a) /\ k <= Len(b) /\ a[k] < b[k]

(***************************************************************************)
(* Users and authentication.                                                *)
(***************************************************************************)
Users == {"alice", "bob"}

Anonymous == "anonymous"

Credentials == {"token_alice", "token_bob", "no_token", "bad_token"}

\* TokenAuthentication: the user the bearer token belongs to
Authenticate(cred) ==
    CASE cred = "token_alice" -> "alice"
      [] cred = "token_bob" -> "bob"
      [] OTHER -> Anonymous

\* permission_classes = [AllowAny]
IsAuthenticatedAllowAny(cred) == TRUE

\* permission_classes = [IsAuthenticated]
IsAuthenticated(cred) == Authenticate(cred) \in Users

(***************************************************************************)
(* Requests and responses.                                                  *)
(***************************************************************************)
NoPk == 0

\* a query parameter that is not sent
NoParam == <<>>

NoParams == [tags |-> NoParam, ingredients |-> NoParam, assigned_only |-> NoParam]

\* request.data of a tag or ingredient request: the keys sent and their values
NoData == [present |-> {}, name |-> <<>>]

NameData(n) == [present |-> {"name"}, name |-> n]

AttrPayloads == {NoData} \cup {NameData(n) : n \in Names \cup {<<>>}}

Req(view, action, cred, pk, data, params) ==
    [view |-> view, action |-> action, cred |-> cred, pk |-> pk,
     data |-> data, params |-> params]

\* status code, kind of body, ids of the rows in the body, fields of each row
Resp(status, body, items, fields) ==
    [status |-> status, body |-> body, items |-> items, fields |-> fields]

NoRequest == Req("none", "none", "no_token", NoPk, NoData, NoParams)

NoResponse == Resp(0, "none", <<>>, {})

\* the response of the authentication gate
Unauthorized == Resp(401, "detail", <<>>, {})

\* get_object_or_404 found no row
NotFound == Resp(404, "detail", <<>>, {})

\* is_valid(raise_exception=True) failed, or serializer.errors was returned
ValidationError == Resp(400, "errors", <<>>, {})

\* an exception no handler catches
ServerError == Resp(500, "server_error", <<>>, {})

\* the method has no handler on the viewset
MethodNotAllowed == Resp(405, "detail", <<>>, {})

AttrFields == {"id", "name"}

(***************************************************************************)
(* int() and the query strings.                                             *)
(***************************************************************************)
Comma == 44

IsDigit(c) == c >= 48 /\ c <= 57

\* int(s) on a string of digits and commas: ValueError unless s is a
\* non-empty run of digits
IsInt(s) == Len(s) > 0 /\ \A i \in DOMAIN s : IsDigit(s[i])

RECURSIVE StrToInt(_)
StrToInt(s) ==
    IF Len(s) = 0 THEN 0
    ELSE 10 * StrToInt(SubSeq(s, 1, Len(s) - 1)) + (s[Len(s)] - 48)

\* str.split(','): the pieces between the commas, empty pieces included
RECURSIVE Split(_)
Split(s) ==
    IF \A i \in DOMAIN s : s[i] # Comma THEN <<s>>
    ELSE LET k == CHOOSE i \in DOMAIN s :
                      s[i] = Comma /\ \A j \in 1..(i - 1) : s[j] # Comma
         IN <<SubSeq(s, 1, k - 1)>> \o Split(SubSeq(s, k + 1, Len(s)))

\* RecipeViewSet._params_to_ints raises ValueError on a piece int() rejects
ParamsAreInts(qs) == \A i \in DOMAIN Split(qs) : IsInt(Split(qs)[i])

ParamsToInts(qs) == [i \in DOMAIN Split(qs) |-> StrToInt(Split(qs)[i])]

Range(s) == {s[i] : i \in DOMAIN s}

\* remove the repeated elements of a sequence, keeping the first of each
RECURSIVE Dedupe(_)
Dedupe(s) ==
    IF Len(s) = 0 THEN <<>>
    ELSE LET front == Dedupe(SubSeq(s, 1, Len(s) - 1))
         IN IF s[Len(s)] \in Range(front) THEN front
            ELSE Append(front, s[Len(s)])

(***************************************************************************)
(* The entity store.  A tag or ingredient row is [id, user, name]; the two  *)
(* many-to-many relations hold <<recipe id, tag id>> and                    *)
(* <<recipe id, ingredient id>>.                                            *)
(***************************************************************************)
AttrRow(id, user, name) == [id |-> id, user |-> user, name |-> name]

\* the INNER JOIN of filter(recipe__isnull=False): one row per referencing
\* recipe; without the filter one row per entry
AttrJoin(table, rel, assigned) ==
    IF assigned
    THEN {[row |-> tp[1], recipe |-> tp[2][1]] :
              tp \in {q \in table \X rel : q[2][2] = q[1].id}}
    ELSE {[row |-> t, recipe |-> 0] : t \in table}

\* ORDER BY name DESC; rows of equal name come in an order the database
\* picks (tieAsc)
AttrBefore(x, y, tieAsc) ==
    \/ StrLess(y.row.name, x.row.name)
    \/ /\ x.row.name = y.row.name
       /\ IF tieAsc
          THEN <<x.row.id, x.recipe>> = <<y.row.id, y.recipe>>
               \/ x.row.id < y.row.id
               \/ (x.row.id = y.row.id /\ x.recipe < y.recipe)
          ELSE <<x.row.id, x.recipe>> = <<y.row.id, y.recipe>>
               \/ x.row.id > y.row.id
               \/ (x.row.id = y.row.id /\ x.recipe > y.recipe)

RECURSIVE OrderAttrRows(_, _)
OrderAttrRows(S, tieAsc) ==
    IF S = {} THEN <<>>
    ELSE LET x == CHOOSE x \in S : \A y \in S : AttrBefore(x, y, tieAsc)
         IN <<x.row>> \o OrderAttrRows(S \ {x}, tieAsc)

\* int(query_params.get('assigned_only', 0)) raises ValueError on a non-number
AssignedOnlyIsInt(raw) == raw = NoParam \/ IsInt(raw)

AssignedOnly(raw) == IF raw = NoParam THEN FALSE ELSE StrToInt(raw) # 0

\* BaseRecipeAttrViewSet.get_queryset without .distinct()
AttrQuerysetNoDistinct(table, rel, user, raw, tieAsc) ==
    OrderAttrRows({x \in AttrJoin(table, rel, AssignedOnly(raw)) :
                       x.row.user = user}, tieAsc)

\* BaseRecipeAttrViewSet.get_queryset without the filter on the owner
AttrQuerysetAllUsers(table, rel, user, raw, tieAsc) ==
    Dedupe(OrderAttrRows(AttrJoin(table, rel, AssignedOnly(raw)), tieAsc))

\* BaseRecipeAttrViewSet.get_queryset: the rows of the caller, by descending
\* name, each once
BaseRecipeAttrViewSet_get_queryset(table, rel, user, raw, tieAsc) ==
    Dedupe(OrderAttrRows({x \in AttrJoin(table, rel, AssignedOnly(raw)) :
                              x.row.user = user}, tieAsc))

Ids(rows) == [i \in DOMAIN rows |-> rows[i].id]

\* GenericAPIView.get_object on a tag or ingredient viewset: the rows of the
\* queryset with this primary key (none: 404)
AttrGetObject(table, rel, user, raw, pk) ==
    {t \in Range(BaseRecipeAttrViewSet_get_queryset(table, rel, user, raw, TRUE)) :
         t.id = pk}

\* TagSerializer / IngredientSerializer.is_valid: name is required unless
\* partial, and may not be blank
AttrSerializerIsValid(data, partial) ==
    IF "name" \in data.present THEN data.name # <<>> ELSE partial

AssignedOnlyParams == {NoParam, <<48>>, <<49>>}

(***************************************************************************)
(* TagViewSet.                                                              *)
(***************************************************************************)
AssignedParams(raw) == [NoParams EXCEPT !.assigned_only = raw]

\* TagViewSet._instance_exists with no filter on the owner
TagInstanceExistsAnyUser(user, name) ==
    \E t \in tags : IExact(t.name, name)

\* TagViewSet._instance_exists with the row the request targets left out
\* (.exclude(pk=instance.pk))
TagInstanceExistsExcludingSelf(user, name) ==
    \E t \in tags : t.user = user /\ t.id # request'.pk /\ IExact(t.name, name)

\* TagViewSet._instance_exists: Tag.objects.filter(user=, name__iexact=).exists()
TagViewSet_instance_exists(user, name) ==
    \E t \in tags : t.user = user /\ IExact(t.name, name)

\* serializer.save(user=...) that adds no row when the owner has the name
SaveNewUnlessDuplicate(table, id, user, name) ==
    IF \E t \in table : t.user = user /\ IExact(t.name, name) THEN table
    ELSE table \cup {AttrRow(id, user, name)}

\* serializer.save(user=self.request.user) of a new row: INSERT
SaveNew(table, id, user, name) == table \cup {AttrRow(id, user, name)}

\* serializer.save() that inserts the changed row and leaves the old one
SaveInstanceKeepsOld(table, instance, name) ==
    table \cup {[instance EXCEPT !.name = name]}

\* serializer.save() on an existing row: UPDATE ... WHERE id = instance.id
SaveInstance(table, instance, name) ==
    {t \in table : t.id # instance.id} \cup {[instance EXCEPT !.name = name]}

\* GET /tags/
TagViewSet_list(cred, raw, tieAsc) ==
    /\ request' = Req("tags", "list", cred, NoPk, NoData, AssignedParams(raw))
    /\ response' =
         IF ~IsAuthenticated(cred) THEN Unauthorized
         ELSE IF ~AssignedOnlyIsInt(raw) THEN ServerError
         ELSE Resp(200, "list",
                   Ids(BaseRecipeAttrViewSet_get_queryset(
                           tags, recipe_tags, Authenticate(cred), raw, tieAsc)),
                   AttrFields)
    /\ UNCHANGED <<store, inflight, capacity>>

\* GET /tags/{id}/: the viewset has no retrieve handler
TagViewSet_retrieve(cred, pk) ==
    /\ request' = Req("tags", "retrieve", cred, pk, NoData, NoParams)
    /\ response' = IF ~IsAuthenticated(cred) THEN Unauthorized
                   ELSE MethodNotAllowed
    /\ UNCHANGED <<store, inflight, capacity>>

\* POST /tags/
TagViewSet_create(cred, data) ==
    LET user == Authenticate(cred)
        req == Req("tags", "create", cred, NoPk, data, NoParams)
    IN /\ request' = req
       /\ UNCHANGED <<ingredients, recipes, recipe_tags, recipe_ingredients,
                      nextIngredientId, nextRecipeId, inflight, capacity>>
       /\ IF ~IsAuthenticated(cred)
          THEN response' = Unauthorized /\ UNCHANGED <<tags, nextTagId>>
          ELSE IF ~AttrSerializerIsValid(data, FALSE)
          THEN response' = ValidationError /\ UNCHANGED <<tags, nextTagId>>
          ELSE IF TagViewSet_instance_exists(user, data.name)
          THEN /\ response' = Resp(400, "message", <<>>, {})
               /\ UNCHANGED <<tags, nextTagId>>
          ELSE /\ nextTagId <= capacity.tags
               /\ tags' = SaveNew(tags, nextTagId, user, data.name)
               /\ nextTagId' = nextTagId + 1
               /\ response' = Resp(201, "entity", <<nextTagId>>, AttrFields)

\* PUT and PATCH /tags/{id}/ (partial_update calls update)
TagViewSet_update(action, cred, pk, data) ==
    LET user == Authenticate(cred)
        found == AttrGetObject(tags, recipe_tags, user, NoParam, pk)
    IN /\ request' = Req("tags", action, cred, pk, data, NoParams)
       /\ UNCHANGED <<ingredients, recipes, recipe_tags, recipe_ingredients,
                      nextTagId, nextIngredientId, nextRecipeId, inflight, capacity>>
       /\ IF ~IsAuthenticated(cred)
          THEN response' = Unauthorized /\ UNCHANGED tags
          ELSE IF found = {}
          THEN response' = NotFound /\ UNCHANGED tags
          ELSE IF ~AttrSerializerIsValid(data, TRUE)
          THEN response' = ValidationError /\ UNCHANGED tags
          ELSE IF "name" \notin data.present
          THEN response' = ServerError /\ UNCHANGED tags
          ELSE IF TagViewSet_instance_exists(user, data.name)
          THEN response' = Resp(400, "message", <<>>, {}) /\ UNCHANGED tags
          ELSE LET instance == CHOOSE t \in found : TRUE
               IN /\ tags' = SaveInstance(tags, instance, data.name)
                  /\ response' = Resp(200, "entity", <<instance.id>>, AttrFields)

\* DELETE /tags/{id}/
TagViewSet_destroy(cred, pk) ==
    LET user == Authenticate(cred)
        found == AttrGetObject(tags, recipe_tags, user, NoParam, pk)
    IN /\ request' = Req("tags", "destroy", cred, pk, NoData, NoParams)
       /\ UNCHANGED <<ingredients, recipes, recipe_ingredients,
                      nextTagId, nextIngredientId, nextRecipeId, inflight, capacity>>
       /\ IF ~IsAuthenticated(cred)
          THEN response' = Unauthorized /\ UNCHANGED <<tags, recipe_tags>>
          ELSE IF found = {}
          THEN response' = NotFound /\ UNCHANGED <<tags, recipe_tags>>
          ELSE /\ tags' = tags \ found
               /\ recipe_tags' = {p \in recipe_tags : p[2] # pk}
               /\ response' = Resp(204, "message", <<>>, {})

(***************************************************************************)
(* IngredientViewSet.                                                       *)
(***************************************************************************)
\* IngredientViewSet._instance_exists with an exact (case-sensitive) match
IngredientInstanceExistsExact(user, name) ==
    \E t \in ingredients : t.user = user /\ t.name = name

\* IngredientViewSet._instance_exists: Ingredient.objects.filter(user=, name__iexact=).exists()
IngredientViewSet_instance_exists(user, name) ==
    \E t \in ingredients : t.user = user /\ IExact(t.name, name)

\* GET /ingredients/
IngredientViewSet_list(cred, raw, tieAsc) ==
    /\ request' = Req("ingredients", "list", cred, NoPk, NoData, AssignedParams(raw))
    /\ response' =
         IF ~IsAuthenticated(cred) THEN Unauthorized
         ELSE IF ~AssignedOnlyIsInt(raw) THEN ServerError
         ELSE Resp(200, "list",
                   Ids(BaseRecipeAttrViewSet_get_queryset(
                           ingredients, recipe_ingredients, Authenticate(cred), raw, tieAsc)),
                   AttrFields)
    /\ UNCHANGED <<store, inflight, capacity>>

\* GET /ingredients/{id}/: the viewset has no retrieve handler
IngredientViewSet_retrieve(cred, pk) ==
    /\ request' = Req("ingredients", "retrieve", cred, pk, NoData, NoParams)
    /\ response' = IF ~IsAuthenticated(cred) THEN Unauthorized
                   ELSE MethodNotAllowed
    /\ UNCHANGED <<store, inflight, capacity>>

\* POST /ingredients/
IngredientViewSet_create(cred, data) ==
    LET user == Authenticate(cred)
        req == Req("ingredients", "create", cred, NoPk, data, NoParams)
    IN /\ request' = req
       /\ UNCHANGED <<tags, recipes, recipe_ingredients, recipe_tags,
                      nextTagId, nextRecipeId, inflight, capacity>>
       /\ IF ~IsAuthenticated(cred)
          THEN response' = Unauthorized /\ UNCHANGED <<ingredients, nextIngredientId>>
          ELSE IF ~AttrSerializerIsValid(data, FALSE)
          THEN response' = ValidationError /\ UNCHANGED <<ingredients, nextIngredientId>>
          ELSE IF IngredientViewSet_instance_exists(user, data.name)
          THEN /\ response' = Resp(400, "message", <<>>, {})
               /\ UNCHANGED <<ingredients, nextIngredientId>>
          ELSE /\ nextIngredientId <= capacity.ingredients
               /\ ingredients' = SaveNew(ingredients, nextIngredientId, user, data.name)
               /\ nextIngredientId' = nextIngredientId + 1
               /\ response' = Resp(201, "entity", <<nextIngredientId>>, AttrFields)

\* PUT and PATCH /ingredients/{id}/ (partial_update calls update)
IngredientViewSet_update(action, cred, pk, data) ==
    LET user == Authenticate(cred)
        found == AttrGetObject(ingredients, recipe_ingredients, user, NoParam, pk)
    IN /\ request' = Req("ingredients", action, cred, pk, data, NoParams)
       /\ UNCHANGED <<tags, recipes, recipe_ingredients, recipe_tags,
                      nextIngredientId, nextTagId, nextRecipeId, inflight, capacity>>
       /\ IF ~IsAuthenticated(cred)
          THEN response' = Unauthorized /\ UNCHANGED ingredients
          ELSE IF found = {}
          THEN response' = NotFound /\ UNCHANGED ingredients
          ELSE IF ~AttrSerializerIsValid(data, TRUE)
          THEN response' = ValidationError /\ UNCHANGED ingredients
          ELSE IF "name" \notin data.present
          THEN response' = ServerError /\ UNCHANGED ingredients
          ELSE IF IngredientViewSet_instance_exists(user, data.name)
          THEN response' = Resp(400, "message", <<>>, {}) /\ UNCHANGED ingredients
          ELSE LET instance == CHOOSE t \in found : TRUE
               IN /\ ingredients' = SaveInstance(ingredients, instance, data.name)
                  /\ response' = Resp(200, "entity", <<instance.id>>, AttrFields)

\* DELETE /ingredients/{id}/
IngredientViewSet_destroy(cred, pk) ==
    LET user == Authenticate(cred)
        found == AttrGetObject(ingredients, recipe_ingredients, user, NoParam, pk)
    IN /\ request' = Req("ingredients", "destroy", cred, pk, NoData, NoParams)
       /\ UNCHANGED <<tags, recipes, recipe_tags,
                      nextIngredientId, nextTagId, nextRecipeId, inflight, capacity>>
       /\ IF ~IsAuthenticated(cred)
          THEN response' = Unauthorized /\ UNCHANGED <<ingredients, recipe_ingredients>>
          ELSE IF found = {}
          THEN response' = NotFound /\ UNCHANGED <<ingredients, recipe_ingredients>>
          ELSE /\ ingredients' = ingredients \ found
               /\ recipe_ingredients' = {p \in recipe_ingredients : p[2] # pk}
               /\ response' = Resp(204, "none", <<>>, {})

(***************************************************************************)
(* RecipeViewSet and the recipe serializers.                                *)
(***************************************************************************)
RecipeRow(id, user, title, time_minutes, price, link, description, image) ==
    [id |-> id, user |-> user, title |-> title, time_minutes |-> time_minutes,
     price |-> price, link |-> link, description |-> description,
     image |-> image]

\* RecipeSerializer.Meta.fields
RecipeSerializerFields == {"id", "title", "time_minutes", "price", "link"}

\* RecipeDetailSerializer.Meta.fields
RecipeDetailSerializerFields == RecipeSerializerFields \cup {"description"}

\* RecipeImageSerializer.Meta.fields
RecipeImageSerializerFields == {"id", "image"}

\* the model fields without a default: the serializer requires them
RecipeRequiredFields == {"title", "time_minutes", "price"}

\* RecipeViewSet.get_serializer_class
RecipeViewSet_get_serializer_class(action) ==
    IF action = "list" THEN RecipeSerializerFields
    ELSE IF action = "upload_image" THEN RecipeImageSerializerFields
    ELSE RecipeDetailSerializerFields

\* request.data of a recipe request: the keys sent and their values
RecipeData(present, title, user, tagNames) ==
    [present |-> present, title |-> title, time_minutes |-> 10, price |-> 5,
     description |-> "d1", user |-> user, tags |-> tagNames]

RecipePayloads ==
    {RecipeData(RecipeRequiredFields, t, Anonymous, <<>>) : t \in {"t1", "t2"}}
    \cup {RecipeData(RecipeRequiredFields \ {f}, "t1", Anonymous, <<>>) :
              f \in RecipeRequiredFields}
    \cup {RecipeData(RecipeRequiredFields \cup {"user"}, "t1", u, <<>>) :
              u \in Users}
    \cup {RecipeData(RecipeRequiredFields \cup {"tags"}, "t1", Anonymous, ns) :
              ns \in {<<Str_A, Str_B>>, <<Str_a>>}}

\* ModelSerializer.is_valid: every required field is present unless partial
RecipeSerializerIsValid(data, partial) ==
    partial \/ RecipeRequiredFields \subseteq data.present

\* the value the serializer writes to a field: the payload's when the field
\* is a writable field of the serializer and was sent, else the old value
Written(data, serializerFields, field, old) ==
    IF field \in serializerFields /\ field \in data.present
    THEN data[field] ELSE old

\* the query strings the model sends for tags= and ingredients=
TagQueryStrings == {NoParam, <<49>>, <<50>>, <<49, Comma, 50>>, <<49, Comma>>}

IngredientQueryStrings == {NoParam, <<49>>}

\* the JOINs of filter(tags__id__in=) and filter(ingredients__id__in=): one
\* row per matching through row of each filter that is given
RecipeJoin(tagFilter, tagIds, ingredientFilter, ingredientIds) ==
    LET tagSide(r) == IF tagFilter
                      THEN {p[2] : p \in {q \in recipe_tags :
                                              q[1] = r.id /\ q[2] \in tagIds}}
                      ELSE {0}
        ingredientSide(r) ==
            IF ingredientFilter
            THEN {p[2] : p \in {q \in recipe_ingredients :
                                    q[1] = r.id /\ q[2] \in ingredientIds}}
            ELSE {0}
    IN UNION {{[row |-> r, tag |-> t, ingredient |-> i] :
                   t \in tagSide(r), i \in ingredientSide(r)} : r \in recipes}

\* ORDER BY id DESC
RECURSIVE OrderRecipeRows(_)
OrderRecipeRows(S) ==
    IF S = {} THEN <<>>
    ELSE LET x == CHOOSE x \in S : \A y \in S : x.row.id >= y.row.id
         IN <<x.row>> \o OrderRecipeRows(S \ {x})

\* `if tags:` is false for a missing and for an empty parameter
Given(qs) == qs # NoParam

FilterIds(qs) == IF Given(qs) THEN Range(ParamsToInts(qs)) ELSE {}

\* _params_to_ints raises ValueError
QueryParamsAreInts(params) ==
    /\ Given(params.tags) => ParamsAreInts(params.tags)
    /\ Given(params.ingredients) => ParamsAreInts(params.ingredients)

\* RecipeViewSet.get_queryset without .distinct()
RecipeQuerysetNoDistinct(user, params) ==
    OrderRecipeRows({x \in RecipeJoin(Given(params.tags), FilterIds(params.tags),
                                      Given(params.ingredients),
                                      FilterIds(params.ingredients)) :
                         x.row.user = user})

\* RecipeViewSet.get_queryset
RecipeViewSet_get_queryset(user, params) ==
    Dedupe(OrderRecipeRows(
        {x \in RecipeJoin(Given(params.tags), FilterIds(params.tags),
                          Given(params.ingredients),
                          FilterIds(params.ingredients)) :
             x.row.user = user}))

\* GenericAPIView.get_object on the recipe viewset
RecipeGetObject(user, params, pk) ==
    {r \in Range(RecipeViewSet_get_queryset(user, params)) : r.id = pk}

\* serializer.save(user=...) of a new recipe with the owner read from the
\* payload when it names one
PerformCreateUserFromPayload(user, data) ==
    RecipeRow(nextRecipeId,
              IF "user" \in data.present THEN data.user ELSE user,
              data.title, data.time_minutes, data.price,
              Written(data, RecipeDetailSerializerFields, "link", ""),
              Written(data, RecipeDetailSerializerFields, "description", ""),
              "")

\* RecipeViewSet.perform_create: serializer.save(user=self.request.user)
RecipeViewSet_perform_create(user, data) ==
    RecipeRow(nextRecipeId, user,
              data.title, data.time_minutes, data.price,
              Written(data, RecipeDetailSerializerFields, "link", ""),
              Written(data, RecipeDetailSerializerFields, "description", ""),
              "")

\* GET /recipes/
RecipeViewSet_list(cred, params) ==
    /\ request' = Req("recipes", "list", cred, NoPk, NoData, params)
    /\ response' =
         IF ~IsAuthenticated(cred) THEN Unauthorized
         ELSE IF ~QueryParamsAreInts(params) THEN ServerError
         ELSE Resp(200, "list",
                   Ids(RecipeViewSet_get_queryset(Authenticate(cred), params)),
                   RecipeViewSet_get_serializer_class("list"))
    /\ UNCHANGED <<store, inflight, capacity>>

\* GET /recipes/{id}/
RecipeViewSet_retrieve(cred, pk) ==
    /\ request' = Req("recipes", "retrieve", cred, pk, NoData, NoParams)
    /\ response' =
         IF ~IsAuthenticated(cred) THEN Unauthorized
         ELSE IF RecipeGetObject(Authenticate(cred), NoParams, pk) = {}
         THEN NotFound
         ELSE Resp(200, "entity", <<pk>>,
                   RecipeViewSet_get_serializer_class("retrieve"))
    /\ UNCHANGED <<store, inflight, capacity>>

\* POST /recipes/
RecipeViewSet_create(cred, data) ==
    /\ request' = Req("recipes", "create", cred, NoPk, data, NoParams)
    /\ UNCHANGED <<tags, ingredients, recipe_tags, recipe_ingredients,
                   nextTagId, nextIngredientId, inflight, capacity>>
    /\ IF ~IsAuthenticated(cred)
       THEN response' = Unauthorized /\ UNCHANGED <<recipes, nextRecipeId>>
       ELSE IF ~RecipeSerializerIsValid(data, FALSE)
       THEN response' = ValidationError /\ UNCHANGED <<recipes, nextRecipeId>>
       ELSE /\ nextRecipeId <= capacity.recipes
            /\ recipes' = recipes \cup
                   {RecipeViewSet_perform_create(Authenticate(cred), data)}
            /\ nextRecipeId' = nextRecipeId + 1
            /\ response' = Resp(201, "entity", <<nextRecipeId>>,
                                RecipeViewSet_get_serializer_class("create"))

\* PUT and PATCH /recipes/{id}/
RecipeViewSet_update(action, cred, pk, data) ==
    LET found == RecipeGetObject(Authenticate(cred), NoParams, pk)
        fields == RecipeViewSet_get_serializer_class(action)
    IN /\ request' = Req("recipes", action, cred, pk, data, NoParams)
       /\ UNCHANGED <<tags, ingredients, recipe_tags, recipe_ingredients,
                      nextTagId, nextIngredientId, nextRecipeId, inflight, capacity>>
       /\ IF ~IsAuthenticated(cred)
          THEN response' = Unauthorized /\ UNCHANGED recipes
          ELSE IF found = {}
          THEN response' = NotFound /\ UNCHANGED recipes
          ELSE IF ~RecipeSerializerIsValid(data, action = "partial_update")
          THEN response' = ValidationError /\ UNCHANGED recipes
          ELSE LET old == CHOOSE r \in found : TRUE
                   new == RecipeRow(old.id, old.user,
                              Written(data, fields, "title", old.title),
                              Written(data, fields, "time_minutes", old.time_minutes),
                              Written(data, fields, "price", old.price),
                              Written(data, fields, "link", old.link),
                              Written(data, fields, "description", old.description),
                              old.image)
               IN /\ recipes' = {r \in recipes : r.id # old.id} \cup {new}
                  /\ response' = Resp(200, "entity", <<old.id>>, fields)

\* DELETE /recipes/{id}/ with a delete that cascades from the recipe to the
\* tags and ingredients it references
RecipeDestroyCascadesToAttrs(cred, pk) ==
    LET found == RecipeGetObject(Authenticate(cred), NoParams, pk)
        goneTags == {p[2] : p \in {q \in recipe_tags : q[1] = pk}}
        goneIngredients == {p[2] : p \in {q \in recipe_ingredients : q[1] = pk}}
    IN /\ request' = Req("recipes", "destroy", cred, pk, NoData, NoParams)
       /\ UNCHANGED <<nextTagId, nextIngredientId, nextRecipeId, inflight, capacity>>
       /\ IF ~IsAuthenticated(cred)
          THEN response' = Unauthorized
               /\ UNCHANGED <<recipes, recipe_tags, recipe_ingredients,
                              tags, ingredients>>
          ELSE IF found = {}
          THEN response' = NotFound
               /\ UNCHANGED <<recipes, recipe_tags, recipe_ingredients,
                              tags, ingredients>>
          ELSE /\ recipes' = recipes \ found
               /\ tags' = {t \in tags : t.id \notin goneTags}
               /\ ingredients' = {i \in ingredients : i.id \notin goneIngredients}
               /\ recipe_tags' = {p \in recipe_tags : p[2] \notin goneTags}
               /\ recipe_ingredients' =
                      {p \in recipe_ingredients : p[2] \notin goneIngredients}
               /\ response' = Resp(204, "none", <<>>, {})

\* DELETE /recipes/{id}/
RecipeViewSet_destroy(cred, pk) ==
    LET found == RecipeGetObject(Authenticate(cred), NoParams, pk)
    IN /\ request' = Req("recipes", "destroy", cred, pk, NoData, NoParams)
       /\ UNCHANGED <<tags, ingredients, nextTagId, nextIngredientId,
                      nextRecipeId, inflight, capacity>>
       /\ IF ~IsAuthenticated(cred)
          THEN response' = Unauthorized
               /\ UNCHANGED <<recipes, recipe_tags, recipe_ingredients>>
          ELSE IF found = {}
          THEN response' = NotFound
               /\ UNCHANGED <<recipes, recipe_tags, recipe_ingredients>>
          ELSE /\ recipes' = recipes \ found
               /\ recipe_tags' = {p \in recipe_tags : p[1] # pk}
               /\ recipe_ingredients' = {p \in recipe_ingredients : p[1] # pk}
               /\ response' = Resp(204, "none", <<>>, {})

\* the files the model uploads: an image, and data that is not an image
Uploads == {"img", "not_an_image"}

\* POST /recipes/{id}/upload-image/
RecipeViewSet_upload_image(cred, pk, file) ==
    LET found == RecipeGetObject(Authenticate(cred), NoParams, pk)
    IN /\ request' = Req("recipes", "upload_image", cred, pk,
                         [present |-> {"image"}, image |-> file], NoParams)
       /\ UNCHANGED <<tags, ingredients, recipe_tags, recipe_ingredients,
                      nextTagId, nextIngredientId, nextRecipeId, inflight, capacity>>
       /\ IF ~IsAuthenticated(cred)
          THEN response' = Unauthorized /\ UNCHANGED recipes
          ELSE IF found = {}
          THEN response' = NotFound /\ UNCHANGED recipes
          ELSE IF file # "img"
          THEN response' = ValidationError /\ UNCHANGED recipes
          ELSE LET old == CHOOSE r \in found : TRUE
               IN /\ recipes' = {r \in recipes : r.id # old.id}
                                    \cup {[old EXCEPT !.image = file]}
                  /\ response' = Resp(200, "entity", <<old.id>>,
                         RecipeViewSet_get_serializer_class("upload_image"))

(***************************************************************************)
(* Rows the tests write through the ORM: recipe.tags.add(tag) and           *)
(* recipe.ingredients.add(ingredient), always for a recipe and an entry of  *)
(* the same user.                                                           *)
(***************************************************************************)
RecipeTagsAdd(r, t) ==
    /\ r.user = t.user
    /\ <<r.id, t.id>> \notin recipe_tags
    /\ recipe_tags' = recipe_tags \cup {<<r.id, t.id>>}
    /\ request' = NoRequest
    /\ response' = NoResponse
    /\ UNCHANGED <<tags, ingredients, recipes, recipe_ingredients,
                   nextTagId, nextIngredientId, nextRecipeId, inflight, capacity>>

RecipeIngredientsAdd(r, i) ==
    /\ r.user = i.user
    /\ <<r.id, i.id>> \notin recipe_ingredients
    /\ recipe_ingredients' = recipe_ingredients \cup {<<r.id, i.id>>}
    /\ request' = NoRequest
    /\ response' = NoResponse
    /\ UNCHANGED <<tags, ingredients, recipes, recipe_tags,
                   nextTagId, nextIngredientId, nextRecipeId, inflight, capacity>>

(***************************************************************************)
(* The API with one request at a time.                                      *)
(***************************************************************************)
Workers == {1, 2}

Idle == [pc |-> "idle", view |-> "none", action |-> "none", user |-> Anonymous,
         name |-> <<>>, pk |-> NoPk, exists |-> FALSE, status |-> 0]

\* the rows each table may come to hold: the bound of the id counters
Capacity(t, i, r) == [tags |-> t, ingredients |-> i, recipes |-> r]

Init ==
    /\ tags = {}
    /\ ingredients = {}
    /\ recipes = {}
    /\ recipe_tags = {}
    /\ recipe_ingredients = {}
    /\ nextTagId = 1
    /\ nextIngredientId = 1
    /\ nextRecipeId = 1
    /\ request = NoRequest
    /\ response = NoResponse
    /\ inflight = [w \in Workers |-> Idle]
    /\ capacity = Capacity(MaxTags, MaxIngredients, MaxRecipes)

\* no request is being handled and no response is waiting for the client
Ready == response = NoResponse

UpdateActions == {"update", "partial_update"}

TagList ==
    /\ Ready
    /\ \E cred \in Credentials, raw \in AssignedOnlyParams, tieAsc \in BOOLEAN :
           TagViewSet_list(cred, raw, tieAsc)

TagRetrieve ==
    /\ Ready
    /\ \E cred \in Credentials, pk \in 1..capacity.tags : TagViewSet_retrieve(cred, pk)

TagCreate ==
    /\ Ready
    /\ \E cred \in Credentials, data \in AttrPayloads : TagViewSet_create(cred, data)

TagUpdate ==
    /\ Ready
    /\ \E action \in UpdateActions, cred \in Credentials, pk \in 1..capacity.tags,
          data \in AttrPayloads : TagViewSet_update(action, cred, pk, data)

TagDestroy ==
    /\ Ready
    /\ \E cred \in Credentials, pk \in 1..capacity.tags : TagViewSet_destroy(cred, pk)

IngredientList ==
    /\ Ready
    /\ \E cred \in Credentials, raw \in AssignedOnlyParams, tieAsc \in BOOLEAN :
           IngredientViewSet_list(cred, raw, tieAsc)

IngredientRetrieve ==
    /\ Ready
    /\ \E cred \in Credentials, pk \in 1..capacity.ingredients :
           IngredientViewSet_retrieve(cred, pk)

IngredientCreate ==
    /\ Ready
    /\ \E cred \in Credentials, data \in AttrPayloads :
           IngredientViewSet_create(cred, data)

IngredientUpdate ==
    /\ Ready
    /\ \E action \in UpdateActions, cred \in Credentials,
          pk \in 1..capacity.ingredients, data \in AttrPayloads :
           IngredientViewSet_update(action, cred, pk, data)

IngredientDestroy ==
    /\ Ready
    /\ \E cred \in Credentials, pk \in 1..capacity.ingredients :
           IngredientViewSet_destroy(cred, pk)

RecipeList ==
    /\ Ready
    /\ \E cred \in Credentials, tq \in TagQueryStrings,
          iq \in IngredientQueryStrings :
           RecipeViewSet_list(cred, [NoParams EXCEPT !.tags = tq,
                                                     !.ingredients = iq])

RecipeRetrieve ==
    /\ Ready
    /\ \E cred \in Credentials, pk \in 1..capacity.recipes :
           RecipeViewSet_retrieve(cred, pk)

RecipeCreate ==
    /\ Ready
    /\ \E cred \in Credentials, data \in RecipePayloads :
           RecipeViewSet_create(cred, data)

RecipeUpdate ==
    /\ Ready
    /\ \E action \in UpdateActions, cred \in Credentials, pk \in 1..capacity.recipes,
          data \in RecipePayloads : RecipeViewSet_update(action, cred, pk, data)

RecipeDestroy ==
    /\ Ready
    /\ \E cred \in Credentials, pk \in 1..capacity.recipes :
           RecipeViewSet_destroy(cred, pk)

RecipeUploadImage ==
    /\ Ready
    /\ \E cred \in Credentials, pk \in 1..capacity.recipes, file \in Uploads :
           RecipeViewSet_upload_image(cred, pk, file)

FixtureTagsAdd ==
    /\ Ready
    /\ \E r \in recipes, t \in tags : RecipeTagsAdd(r, t)

FixtureIngredientsAdd ==
    /\ Ready
    /\ \E r \in recipes, i \in ingredients : RecipeIngredientsAdd(r, i)

\* the client has the response; the server is ready for the next request
ResponseReceived ==
    /\ ~Ready
    /\ request' = NoRequest
    /\ response' = NoResponse
    /\ UNCHANGED <<store, inflight, capacity>>

Next ==
    \/ TagList
    \/ TagRetrieve
    \/ TagCreate
    \/ TagUpdate
    \/ TagDestroy
    \/ IngredientList
    \/ IngredientRetrieve
    \/ IngredientCreate
    \/ IngredientUpdate
    \/ IngredientDestroy
    \/ RecipeList
    \/ RecipeRetrieve
    \/ RecipeCreate
    \/ RecipeUpdate
    \/ RecipeDestroy
    \/ RecipeUploadImage
    \/ FixtureTagsAdd
    \/ FixtureIngredientsAdd
    \/ ResponseReceived

Spec == Init /\ [][Next]_vars

(***************************************************************************)
(* The tag and ingredient endpoints alone, with room for more rows.         *)
(***************************************************************************)
InitAttr ==
    /\ tags = {}
    /\ ingredients = {}
    /\ recipes = {}
    /\ recipe_tags = {}
    /\ recipe_ingredients = {}
    /\ nextTagId = 1
    /\ nextIngredientId = 1
    /\ nextRecipeId = 1
    /\ request = NoRequest
    /\ response = NoResponse
    /\ inflight = [w \in Workers |-> Idle]
    /\ capacity = Capacity(AttrMaxTags, AttrMaxIngredients, 0)

NextAttr ==
    \/ TagList
    \/ TagRetrieve
    \/ TagCreate
    \/ TagUpdate
    \/ TagDestroy
    \/ IngredientList
    \/ IngredientRetrieve
    \/ IngredientCreate
    \/ IngredientUpdate
    \/ IngredientDestroy
    \/ ResponseReceived

SpecAttr == InitAttr /\ [][NextAttr]_vars

(***************************************************************************)
(* The list requests on stores the tests build through the ORM.             *)
(***************************************************************************)
FixtureAttrTables(max) ==
    UNION {{{AttrRow(i, f[i][1], f[i][2]) : i \in 1..k} :
                f \in [1..k -> Users \X Names]} : k \in 0..max}

FixtureRecipeTables(max) ==
    UNION {{{RecipeRow(i, f[i], "t1", 10, 5, "", "", "") : i \in 1..k} :
                f \in [1..k -> Users]} : k \in 0..max}

\* recipe.tags.add / recipe.ingredients.add of rows of the same user
FixtureRelations(table) ==
    SUBSET {p \in {<<r.id, t.id, r.user, t.user>> : r \in recipes, t \in table} :
                p[3] = p[4]}

InitLists ==
    /\ tags \in FixtureAttrTables(FixtureTags)
    /\ ingredients \in FixtureAttrTables(FixtureIngredients)
    /\ recipes \in FixtureRecipeTables(FixtureRecipes)
    /\ recipe_tags \in {{<<p[1], p[2]>> : p \in ps} : ps \in FixtureRelations(tags)}
    /\ recipe_ingredients \in
           {{<<p[1], p[2]>> : p \in ps} : ps \in FixtureRelations(ingredients)}
    /\ nextTagId = Cardinality(tags) + 1
    /\ nextIngredientId = Cardinality(ingredients) + 1
    /\ nextRecipeId = Cardinality(recipes) + 1
    /\ request = NoRequest
    /\ response = NoResponse
    /\ inflight = [w \in Workers |-> Idle]
    /\ capacity = Capacity(FixtureTags, FixtureIngredients, FixtureRecipes)

NextLists ==
    \/ TagList
    \/ IngredientList
    \/ RecipeList
    \/ ResponseReceived

SpecLists == InitLists /\ [][NextLists]_vars

(***************************************************************************)
(* Recipe deletes on stores the tests build through the ORM, in which every *)
(* tag and every ingredient is on a recipe.                                 *)
(***************************************************************************)
InitDelete ==
    /\ InitLists
    /\ \A t \in tags : \E p \in recipe_tags : p[2] = t.id
    /\ \A i \in ingredients : \E p \in recipe_ingredients : p[2] = i.id

NextDelete ==
    \/ RecipeRetrieve
    \/ RecipeDestroy
    \/ ResponseReceived

SpecDelete == InitDelete /\ [][NextDelete]_vars

(***************************************************************************)
(* Tag and ingredient creates and updates alone, from the empty store.      *)
(***************************************************************************)
NextRename ==
    \/ TagCreate
    \/ TagUpdate
    \/ IngredientCreate
    \/ IngredientUpdate
    \/ ResponseReceived

SpecRename == Init /\ [][NextRename]_vars

(***************************************************************************)
(* Two tag requests handled by two workers at once: each handler is two     *)
(* steps, the queries up to _instance_exists and then the save.             *)
(***************************************************************************)
Done(w, status) == [inflight EXCEPT ![w].pc = "done", ![w].status = status]

\* create / update up to and including `tag_exists = self._instance_exists()`
TagRaceCheck(w, action, cred, pk, data) ==
    LET user == Authenticate(cred)
        found == AttrGetObject(tags, recipe_tags, user, NoParam, pk)
    IN /\ inflight[w].pc = "idle"
       /\ UNCHANGED <<store, request, response, capacity>>
       /\ inflight' =
            IF ~IsAuthenticated(cred) THEN Done(w, 401)
            ELSE IF action # "create" /\ found = {} THEN Done(w, 404)
            ELSE IF ~AttrSerializerIsValid(data, action # "create")
            THEN Done(w, 400)
            ELSE IF "name" \notin data.present THEN Done(w, 500)
            ELSE [inflight EXCEPT ![w] =
                     [pc |-> "checked", view |-> "tags", action |-> action,
                      user |-> user, name |-> data.name, pk |-> pk,
                      exists |-> TagViewSet_instance_exists(user, data.name),
                      status |-> 0]]

\* create / update from `if not tag_exists:` on
TagRaceSave(w) ==
    LET job == inflight[w]
    IN /\ job.pc = "checked"
       /\ UNCHANGED <<ingredients, recipes, recipe_tags, recipe_ingredients,
                      nextIngredientId, nextRecipeId, request, response, capacity>>
       /\ IF job.exists
          THEN inflight' = Done(w, 400) /\ UNCHANGED <<tags, nextTagId>>
          ELSE IF job.action = "create"
          THEN /\ tags' = SaveNew(tags, nextTagId, job.user, job.name)
               /\ nextTagId' = nextTagId + 1
               /\ inflight' = Done(w, 201)
          ELSE /\ tags' = SaveInstance(tags, AttrRow(job.pk, job.user, job.name),
                                       job.name)
               /\ UNCHANGED nextTagId
               /\ inflight' = Done(w, 200)

RaceCreate ==
    \E w \in Workers, cred \in Credentials, data \in AttrPayloads :
        TagRaceCheck(w, "create", cred, NoPk, data)

RaceUpdate ==
    \E w \in Workers, action \in UpdateActions, cred \in Credentials,
       pk \in 1..capacity.tags, data \in AttrPayloads :
        TagRaceCheck(w, action, cred, pk, data)

RaceSave == \E w \in Workers : TagRaceSave(w)

InitRace ==
    /\ tags \in FixtureAttrTables(RaceTags)
    /\ ingredients = {}
    /\ recipes = {}
    /\ recipe_tags = {}
    /\ recipe_ingredients = {}
    /\ nextTagId = Cardinality(tags) + 1
    /\ nextIngredientId = 1
    /\ nextRecipeId = 1
    /\ request = NoRequest
    /\ response = NoResponse
    /\ inflight = [w \in Workers |-> Idle]
    /\ capacity = Capacity(RaceTags, 0, 0)

NextRace ==
    \/ RaceCreate
    \/ RaceUpdate
    \/ RaceSave

SpecRace == InitRace /\ [][NextRace]_vars

(***************************************************************************)
(* The claims.                                                              *)
(***************************************************************************)
\* the step is the handling of a request
Handled == request' # NoRequest /\ response' # NoResponse

\* the caller of the request being handled
Caller == CASE request'.cred = "token_alice" -> "alice"
            [] request'.cred = "token_bob" -> "bob"
            [] OTHER -> Anonymous

SameNameIgnoringCase(a, b) ==
    /\ Len(a) = Len(b)
    /\ \A i \in DOMAIN a :
           \/ a[i] = b[i]
           \/ a[i] \in 65..90 /\ b[i] = a[i] + 32
           \/ b[i] \in 65..90 /\ a[i] = b[i] + 32

\* C2: every request that carries no valid bearer token, to any endpoint and
\* with any method, upload-image included, is answered 401 and leaves the
\* entity store as it was, whether or not the row it targets exists.
C2_UnauthorizedBeforeHandler ==
    [][(Handled /\ Caller = Anonymous)
           => (response' = Unauthorized /\ store' = store)]_vars

\* a request without a valid token for the image upload of a recipe that
\* exists was answered 401
C2_Witness ==
    /\ response = Unauthorized
    /\ request.action = "upload_image"
    /\ request.cred \in {"no_token", "bad_token"}
    /\ \E r \in recipes : r.id = request.pk

\* the effect of a create request for name n by user U on one table, the
\* rest of the store being `others`
CreateContract(table, tableAfter, counter, counterAfter, others, othersAfter) ==
    LET n == request'.data.name
        owned == \E t \in table : t.user = Caller /\ SameNameIgnoringCase(t.name, n)
    IN IF owned
       THEN /\ response'.status = 400
            /\ response'.body = "message"
            /\ tableAfter = table
            /\ counterAfter = counter
            /\ othersAfter = others
       ELSE /\ response'.status = 201
            /\ othersAfter = others
            /\ \E row \in tableAfter :
                   /\ tableAfter = table \cup {row}
                   /\ row.id \notin {t.id : t \in table}
                   /\ row.name = n
                   /\ row.user = Caller

ValidNameSent == "name" \in request'.data.present /\ request'.data.name # <<>>

\* C3: a tag (ingredient) create with a valid name n by user U is answered
\* 400 with a message and changes no row when U owns a tag (ingredient) whose
\* name equals n ignoring case, and otherwise is answered 201 and adds exactly
\* one row with name n and owner U; rows of other users never matter.
C3_CreateRejectsOwnDuplicate ==
    [][/\ (Handled /\ Caller \in Users /\ request'.view = "tags"
              /\ request'.action = "create" /\ ValidNameSent)
           => CreateContract(tags, tags', nextTagId, nextTagId',
                  <<ingredients, recipes, recipe_tags, recipe_ingredients,
                    nextIngredientId, nextRecipeId>>,
                  <<ingredients', recipes', recipe_tags', recipe_ingredients',
                    nextIngredientId', nextRecipeId'>>)
       /\ (Handled /\ Caller \in Users /\ request'.view = "ingredients"
              /\ request'.action = "create" /\ ValidNameSent)
           => CreateContract(ingredients, ingredients',
                  nextIngredientId, nextIngredientId',
                  <<tags, recipes, recipe_tags, recipe_ingredients,
                    nextTagId, nextRecipeId>>,
                  <<tags', recipes', recipe_tags', recipe_ingredients',
                    nextTagId', nextRecipeId'>>)]_vars

\* a tag create was rejected because the caller owns the name in another
\* case, while the other user owns a tag of exactly the requested name
C3_Witness ==
    /\ request.view = "tags" /\ request.action = "create"
    /\ response.status = 400 /\ response.body = "message"
    /\ \E t \in tags, o \in tags :
           /\ t.user = Authenticate(request.cred)
           /\ t.name # request.data.name
           /\ SameNameIgnoringCase(t.name, request.data.name)
           /\ o.user # t.user
           /\ o.name = request.data.name

NoOwnDuplicates(table) ==
    \A t1 \in table, t2 \in table :
        (t1.id # t2.id /\ t1.user = t2.user)
            => ~SameNameIgnoringCase(t1.name, t2.name)

\* C4: when each request completes before the next one starts, and the
\* store starts without duplicates, no user ever owns two tags, or two
\* ingredients, whose names are equal ignoring case.
C4_NoOwnDuplicatesSequential ==
    NoOwnDuplicates(tags) /\ NoOwnDuplicates(ingredients)

\* a user owns two tags and two ingredients, and a rename of one of the tags
\* to the name of the other in another case has just been rejected
C4_Witness ==
    /\ request.view = "tags" /\ request.action \in UpdateActions
    /\ response.status = 400 /\ response.body = "message"
    /\ \E t1 \in tags, t2 \in tags :
           /\ t1.id = request.pk /\ t2.id # t1.id
           /\ t2.user = t1.user
           /\ SameNameIgnoringCase(t2.name, request.data.name)
           /\ t2.name # request.data.name
    /\ \E i1 \in ingredients, i2 \in ingredients :
           i1.id # i2.id /\ i1.user = i2.user

\* the id and owner of every row of the table behind an endpoint
Owners(view) ==
    CASE view = "tags" -> {<<t.id, t.user>> : t \in tags}
      [] view = "ingredients" -> {<<i.id, i.user>> : i \in ingredients}
      [] OTHER -> {<<r.id, r.user>> : r \in recipes}

DetailActions ==
    {"retrieve", "update", "partial_update", "destroy", "upload_image"}

\* the request being handled targets an id that is a row of another user
TargetsForeignRow ==
    /\ Handled /\ Caller \in Users
    /\ request'.action \in DetailActions
    /\ \E o \in Owners(request'.view) : o[1] = request'.pk /\ o[2] # Caller

\* the request being handled targets an id that is no row at all
TargetsMissingRow ==
    /\ Handled /\ Caller \in Users
    /\ request'.action \in DetailActions
    /\ \A o \in Owners(request'.view) : o[1] # request'.pk

ListsOnlyOwnRows ==
    (Handled /\ Caller \in Users /\ response'.body = "list")
        => \A o \in Owners(request'.view) :
               o[2] # Caller => o[1] \notin Range(response'.items)

\* C1 as stated: a list response to B holds no row of another user, and every
\* retrieve, update or delete by B of an id that is A's row is answered not
\* found and leaves the store unchanged.
C1_IsolationNotFound ==
    [][/\ ListsOnlyOwnRows
       /\ TargetsForeignRow => (response' = NotFound /\ store' = store)]_vars

\* the response to a request for an id that does not exist
ResponseForMissing ==
    IF request'.view \in {"tags", "ingredients"} /\ request'.action = "retrieve"
    THEN MethodNotAllowed ELSE NotFound

\* C1 (amended): a list response to B holds no row of another user, and every
\* retrieve, update or delete by B of an id that is A's row gets the response
\* of an id that does not exist (not found; method not allowed for the
\* retrieve of a tag or ingredient, which those endpoints do not offer) and
\* leaves the store, A's rows and their associations included, unchanged.
C1_Isolation ==
    [][/\ ListsOnlyOwnRows
       /\ (TargetsForeignRow \/ TargetsMissingRow)
              => (response' = ResponseForMissing /\ store' = store)]_vars

\* a rename by one user of a tag that the other user owns and a recipe
\* references was answered not found
C1_Witness ==
    /\ request.view = "tags" /\ request.action \in UpdateActions
    /\ response = NotFound
    /\ Authenticate(request.cred) \in Users
    /\ \E t \in tags : /\ t.id = request.pk
                       /\ t.user # Authenticate(request.cred)
                       /\ \E p \in recipe_tags : p[2] = t.id

\* the effect of a rename to n of the row with id pk on one table
UpdateContract(table, tableAfter, others, othersAfter) ==
    LET n == request'.data.name
        old == CHOOSE t \in table : t.id = request'.pk
        owned == \E t \in table : t.user = Caller /\ SameNameIgnoringCase(t.name, n)
    IN IF owned
       THEN /\ response'.status = 400
            /\ tableAfter = table
            /\ othersAfter = others
       ELSE /\ response'.status = 200
            /\ tableAfter = (table \ {old}) \cup
                   {[id |-> old.id, user |-> old.user, name |-> n]}
            /\ othersAfter = others

\* C6: a tag (ingredient) update, PUT or PATCH, by the owner U with name n is
\* answered 400 and changes no row when U owns a tag (ingredient) whose name
\* equals n ignoring case; otherwise it is answered 200, the row's name
\* becomes n, and its id, owner and recipe associations and every other row
\* stay as they were.
C6_UpdateRejectsOwnDuplicate ==
    [][/\ (Handled /\ Caller \in Users /\ request'.view = "tags"
              /\ request'.action \in UpdateActions /\ ValidNameSent
              /\ <<request'.pk, Caller>> \in Owners("tags"))
           => UpdateContract(tags, tags',
                  <<ingredients, recipes, recipe_tags, recipe_ingredients,
                    nextTagId, nextIngredientId, nextRecipeId>>,
                  <<ingredients', recipes', recipe_tags', recipe_ingredients',
                    nextTagId', nextIngredientId', nextRecipeId'>>)
       /\ (Handled /\ Caller \in Users /\ request'.view = "ingredients"
              /\ request'.action \in UpdateActions /\ ValidNameSent
              /\ <<request'.pk, Caller>> \in Owners("ingredients"))
           => UpdateContract(ingredients, ingredients',
                  <<tags, recipes, recipe_tags, recipe_ingredients,
                    nextTagId, nextIngredientId, nextRecipeId>>,
                  <<tags', recipes', recipe_tags', recipe_ingredients',
                    nextTagId', nextIngredientId', nextRecipeId'>>)]_vars

\* a PATCH renamed a tag that a recipe references, while its owner has
\* another tag
C6_Witness ==
    /\ request.view = "tags" /\ request.action = "partial_update"
    /\ response.status = 200
    /\ \E t \in tags, o \in tags :
           /\ t.id = request.pk /\ t.name = request.data.name
           /\ o.id # t.id /\ o.user = t.user
           /\ \E p \in recipe_tags : p[2] = t.id
    /\ ingredients # {}

\* the two workers handled requests of one user for one name ignoring case,
\* each saw no such row in its existence query, and they did not rename the
\* same row
Raced(w1, w2) ==
    /\ w1 # w2
    /\ inflight[w1].pc = "done" /\ inflight[w2].pc = "done"
    /\ inflight[w1].action # "none" /\ inflight[w2].action # "none"
    /\ ~inflight[w1].exists /\ ~inflight[w2].exists
    /\ inflight[w1].user = inflight[w2].user
    /\ SameNameIgnoringCase(inflight[w1].name, inflight[w2].name)
    /\ ~(inflight[w1].action # "create" /\ inflight[w2].action # "create"
            /\ inflight[w1].pk = inflight[w2].pk)

\* C5: when two creates, or a create and an update, of one user for one name
\* ignoring case both pass the existence check before either writes, both
\* are answered with success and the store then holds two rows of that user
\* with that name ignoring case; nothing prevents it.
C5_CheckThenActRace ==
    \A w1 \in Workers, w2 \in Workers :
        Raced(w1, w2) =>
            /\ inflight[w1].status \in {200, 201}
            /\ inflight[w2].status \in {200, 201}
            /\ \E t1 \in tags, t2 \in tags :
                   /\ t1.id # t2.id
                   /\ t1.user = inflight[w1].user /\ t2.user = t1.user
                   /\ SameNameIgnoringCase(t1.name, inflight[w1].name)
                   /\ SameNameIgnoringCase(t2.name, inflight[w1].name)

\* a create and a rename of one user raced and left that user with two
\* tags whose names differ only in case
C5_Witness ==
    /\ Raced(1, 2)
    /\ inflight[1].action = "create" /\ inflight[1].status = 201
    /\ inflight[2].action = "update" /\ inflight[2].status = 200
    /\ inflight[1].name # inflight[2].name
    /\ ~NoOwnDuplicates(tags)

\* the recipe create being handled was answered 201
RecipeCreated ==
    /\ Handled /\ Caller \in Users
    /\ request'.view = "recipes" /\ request'.action = "create"
    /\ response'.status = 201

\* the payload names, one for each set of names equal ignoring case
DistinctNames(names) ==
    {{m \in names : SameNameIgnoringCase(m, n)} : n \in names}

\* C7: a recipe create with nested tags given by name reuses, for each name,
\* the caller's tag of that name ignoring case or creates one owned by the
\* caller; the new recipe is then associated with exactly one tag per payload
\* name, all owned by the caller, the new tag rows are as many as the payload
\* names the caller did not own, and no existing tag is changed.
C7_NestedTagsGetOrCreate ==
    [][(RecipeCreated /\ "tags" \in request'.data.present) =>
          LET names == Range(request'.data.tags)
              linked == {t \in tags' :
                            <<response'.items[1], t.id>> \in recipe_tags'}
              missing == {c \in DistinctNames(names) :
                             ~\E t \in tags : /\ t.user = Caller
                                              /\ \E n \in c : SameNameIgnoringCase(t.name, n)}
          IN /\ \A n \in names :
                    Cardinality({t \in linked : SameNameIgnoringCase(t.name, n)}) = 1
             /\ \A t \in linked :
                    /\ t.user = Caller
                    /\ \E n \in names : SameNameIgnoringCase(t.name, n)
             /\ tags \subseteq tags'
             /\ Cardinality(tags' \ tags) = Cardinality(missing)]_vars

\* C8: a recipe create by an authenticated user U without title,
\* time_minutes or price is answered 400 and adds no row; with all three it
\* is answered 201 and adds exactly one recipe row with a fresh id, the
\* payload's values and owner U, whatever user the payload names.
C8_RecipeCreateContract ==
    [][(Handled /\ Caller \in Users /\ request'.view = "recipes"
            /\ request'.action = "create") =>
          IF ~({"title", "time_minutes", "price"} \subseteq request'.data.present)
          THEN /\ response'.status = 400
               /\ store' = store
          ELSE /\ response'.status = 201
               /\ \E row \in recipes' :
                      /\ recipes' = recipes \cup {row}
                      /\ row.id \notin {r.id : r \in recipes}
                      /\ response'.items = <<row.id>>
                      /\ row.title = request'.data.title
                      /\ row.time_minutes = request'.data.time_minutes
                      /\ row.price = request'.data.price
                      /\ row.user = Caller
               /\ <<tags, ingredients, recipe_tags, recipe_ingredients,
                    nextTagId, nextIngredientId>>' =
                  <<tags, ingredients, recipe_tags, recipe_ingredients,
                    nextTagId, nextIngredientId>>]_vars

\* a recipe was created by one user with a payload that names the other
\* user as its owner
C8_Witness ==
    /\ request.view = "recipes" /\ request.action = "create"
    /\ response.status = 201
    /\ "user" \in request.data.present
    /\ request.data.user # Authenticate(request.cred)
    /\ \E r \in recipes : r.id = response.items[1]

\* the ids in the tags= (ingredients=) parameter of the list request answered
IdsIn(qs) == {StrToInt(Split(qs)[i]) : i \in DOMAIN Split(qs)}

\* C9: a recipe list for caller U holds exactly the recipes of U that have
\* at least one tag with an id in T, when tags= is given, and at least one
\* ingredient with an id in I, when ingredients= is given, each recipe once,
\* in strictly descending id order.
C9_RecipeListFilters ==
    (request.view = "recipes" /\ request.action = "list" /\ response.status = 200)
    => LET U == Authenticate(request.cred)
           T == IdsIn(request.params.tags)
           I == IdsIn(request.params.ingredients)
           items == response.items
           expected ==
               {r.id : r \in {x \in recipes :
                   /\ x.user = U
                   /\ request.params.tags # <<>> =>
                          \E t \in T : <<x.id, t>> \in recipe_tags
                   /\ request.params.ingredients # <<>> =>
                          \E i \in I : <<x.id, i>> \in recipe_ingredients}}
       IN /\ Range(items) = expected
          /\ \A i \in DOMAIN items, j \in DOMAIN items :
                 i < j => items[i] > items[j]

\* a list filtered by two tag ids and an ingredient id returned two recipes,
\* one of which has both tags
C9_Witness ==
    /\ request.view = "recipes" /\ request.action = "list"
    /\ response.status = 200
    /\ request.params.tags = <<49, Comma, 50>>
    /\ request.params.ingredients = <<49>>
    /\ Len(response.items) = 2
    /\ \E r \in recipes : /\ r.id \in Range(response.items)
                          /\ <<r.id, 1>> \in recipe_tags
                          /\ <<r.id, 2>> \in recipe_tags

\* C10: a tag (ingredient) list for caller U holds exactly the tags
\* (ingredients) of U, or with assigned_only=1 exactly those of them that a
\* recipe of U references, each once however many recipes reference it, in
\* descending name order.
C10_AttrListAssignedOnly ==
    (request.view \in {"tags", "ingredients"} /\ request.action = "list"
        /\ response.status = 200)
    => LET U == Authenticate(request.cred)
           table == IF request.view = "tags" THEN tags ELSE ingredients
           rel == IF request.view = "tags" THEN recipe_tags
                  ELSE recipe_ingredients
           assigned == request.params.assigned_only = <<49>>
           items == response.items
           nameOf(id) == (CHOOSE t \in table : t.id = id).name
           expected ==
               {t.id : t \in {x \in table :
                   /\ x.user = U
                   /\ assigned => \E r \in recipes :
                                      r.user = U /\ <<r.id, x.id>> \in rel}}
       IN /\ Range(items) = expected
          /\ Len(items) = Cardinality(expected)
          /\ \A i \in DOMAIN items, j \in DOMAIN items :
                 i < j => ~StrLess(nameOf(items[i]), nameOf(items[j]))

\* a tag list with assigned_only=1 returned one tag that two recipes
\* reference and left out a tag of the caller that no recipe references
C10_Witness ==
    /\ request.view = "tags" /\ request.action = "list"
    /\ response.status = 200
    /\ request.params.assigned_only = <<49>>
    /\ Len(response.items) = 1
    /\ Cardinality({p \in recipe_tags : p[2] = response.items[1]}) = 2
    /\ \E t \in tags : /\ t.user = Authenticate(request.cred)
                       /\ t.id \notin Range(response.items)

\* the request being handled is a tag or ingredient create, or an update of
\* a row the caller owns, and its payload has no name field
NoNameSent ==
    /\ Handled /\ Caller \in Users
    /\ request'.view \in {"tags", "ingredients"}
    /\ "name" \notin request'.data.present
    /\ \/ request'.action = "create"
       \/ /\ request'.action \in UpdateActions
          /\ <<request'.pk, Caller>> \in Owners(request'.view)

\* C11: a tag or ingredient create or update (PUT or PATCH) by the owner
\* whose payload has no name field is answered with a client error (4xx)
\* that carries structured error content, never with a server error, and
\* leaves the store unchanged.
C11_NoNameIsClientError ==
    [][NoNameSent =>
          /\ response'.status \in 400..499
          /\ response'.body \in {"errors", "message", "detail"}
          /\ store' = store]_vars

\* C12: a recipe delete by the owner is answered 204 and removes exactly
\* that recipe row and its tag and ingredient associations; every tag and
\* every ingredient, those the recipe referenced included, keeps its id, name
\* and owner, and every other recipe and its associations are unchanged.
C12_RecipeDeleteFrame ==
    [][(Handled /\ Caller \in Users /\ request'.view = "recipes"
            /\ request'.action = "destroy"
            /\ <<request'.pk, Caller>> \in Owners("recipes")) =>
          /\ response'.status = 204
          /\ recipes' = {r \in recipes : r.id # request'.pk}
          /\ recipe_tags' = {p \in recipe_tags : p[1] # request'.pk}
          /\ recipe_ingredients' =
                 {p \in recipe_ingredients : p[1] # request'.pk}
          /\ tags' = tags
          /\ ingredients' = ingredients
          /\ <<nextTagId, nextIngredientId, nextRecipeId>>' =
                 <<nextTagId, nextIngredientId, nextRecipeId>>]_vars

\* a recipe was deleted: a tag and an ingredient that were on it are left on
\* no recipe, and another recipe still has its tag
C12_Witness ==
    /\ request.view = "recipes" /\ request.action = "destroy"
    /\ response.status = 204
    /\ \A r \in recipes : r.id # request.pk
    /\ \E t \in tags : \A p \in recipe_tags : p[2] # t.id
    /\ \E i \in ingredients : \A p \in recipe_ingredients : p[2] # i.id
    /\ \E r \in recipes : \E p \in recipe_tags : p[1] = r.id

\* the recipe request being handled was answered with recipe data
RecipeDataReturned ==
    /\ Handled /\ Caller \in Users
    /\ request'.view = "recipes"
    /\ response'.status \in {200, 201}

\* C13: a recipe list response exposes exactly the fields id, title,
\* time_minutes, price and link; a retrieve, create or update response
\* exposes exactly those fields plus description and image; the fields
\* depend on the action alone.
C13_ProjectionByAction ==
    [][RecipeDataReturned =>
          /\ request'.action = "list" =>
                 response'.fields =
                     {"id", "title", "time_minutes", "price", "link"}
          /\ request'.action \in {"retrieve", "create", "update", "partial_update"} =>
                 response'.fields =
                     {"id", "title", "time_minutes", "price", "link",
                      "description", "image"}]_vars

\* the same update sent again: the handler on the request just answered.
\* Between the two requests only the response is handed to the client, which
\* changes no variable the handler reads.
TagUpdateAgain ==
    TagViewSet_update(request.action, request.cred, request.pk, request.data)

IngredientUpdateAgain ==
    IngredientViewSet_update(request.action, request.cred, request.pk,
                             request.data)

\* the update just answered renamed a row of the given endpoint with 200
Renamed(view) ==
    /\ request.view = view /\ request.action \in UpdateActions
    /\ response.status = 200

\* the request is rejected as a duplicate and writes nothing
RejectedAsDuplicate ==
    /\ response'.status = 400 /\ response'.body = "message"
    /\ store' = store

\* C14: when an update of an owned tag or ingredient with name n has been
\* answered 200, the identical update sent next is answered 400, because the
\* row now matches its own name in the duplicate check, and leaves the store
\* as the first update left it.
C14_RepeatedRenameRejected ==
    /\ Renamed("tags") =>
           /\ ENABLED TagUpdateAgain
           /\ ~ENABLED (TagUpdateAgain /\ ~RejectedAsDuplicate)
    /\ Renamed("ingredients") =>
           /\ ENABLED IngredientUpdateAgain
           /\ ~ENABLED (IngredientUpdateAgain /\ ~RejectedAsDuplicate)

\* a PUT renamed a tag whose owner has no other tag of that name, and the
\* same PUT sent again is rejected as a duplicate of the renamed tag itself
C14_Witness ==
    /\ Renamed("tags") /\ request.action = "update"
    /\ \E t \in tags :
           /\ t.id = request.pk /\ t.name = request.data.name
           /\ \A o \in tags :
                  (o.user = t.user /\ SameNameIgnoringCase(o.name, t.name))
                      => o.id = t.id
    /\ ENABLED (TagUpdateAgain /\ RejectedAsDuplicate)

====
